---- MODULE Spec2Model ----
(***************************************************************************)
(* Model of the progress-bar tracker of src/progressbar.go: the state of   *)
(* a ProgressBar (p.state, p.config, p.lock), its construction from        *)
(* options, the operations Add64 and RenderBlank, and the renderer they    *)
(* call (render, clearProgressBar, renderProgressBar, writeString).        *)
(*                                                                         *)
(* Time is in milliseconds and the clock advances in steps of 500ms.  The  *)
(* output sink is an io.Writer whose writes succeed while writerOK holds   *)
(* and fail otherwise.  A string is modelled by what the program does with *)
(* it: a glyph of the theme and the description by their widths, a         *)
(* rendered line by the record of its segments.  The rates and the         *)
(* remaining time are computed in float64 arithmetic, as the code does.    *)
(***************************************************************************)
EXTENDS Integers, Sequences, FiniteSets, TLC

\* ------------------------------------------------------------------------
\* Bounds of the model
\* ------------------------------------------------------------------------
MaxMax == 3
MaxDelta == 2
MaxTime == 2
MaxCalls == 3
MaxRateCalls == 12
MaxBlanks == 1
NumThreads == 2

\* ------------------------------------------------------------------------
\* Program constants
\* ------------------------------------------------------------------------
\* time.Since(counterTime).Seconds() > 0.5, in milliseconds
HalfSecond == 500
\* time.Second, in milliseconds and in nanoseconds
Second == 1000
Nanoseconds == 1000000000
\* len(counterLastTenRates) > 10
RateHistory == 10
\* the max value that selects unknown-length mode
UnknownLength == 0 - 1
\* time.Time{}: a last-shown time older than every throttle interval
ZeroTime == 0 - 1000000
\* the defaults of NewOptions64 and the range of the spinner types
DefaultWidth == 40
DefaultSpinner == 9
MaxSpinner == 75
\* the columns renderProgressBar takes off the terminal width
FixedColumns == 10

\* the smallest delta given to Add64
MinDelta == 0 - 1
Deltas == MinDelta..MaxDelta
MaxVals == (0 - 2)..MaxMax
\* the width given to OptionSetWidth
BarWidth == 2
\* the positive interval given to OptionThrottle
Throttle == 1000
Throttles == {0, Throttle}
\* the terminal widths termWidth returns: 0 without a terminal
Columns == 80
TermWidths == {0, Columns}
Threads == 1..NumThreads
NoThread == 0

VARIABLES
    state,          \* p.state
    config,         \* p.config
    lock,           \* p.lock: the thread holding it, or NoThread
    now,            \* the clock, time.Now()
    term,           \* the width of the terminal, as termWidth returns it
    writerOK,       \* whether a write to config.writer succeeds
    completions,    \* number of invocations of config.onCompletion
    ret,            \* the error returned by the last finished call
    lastOp,         \* the last finished call
    ev,             \* what the last finished call wrote and called, in order
    hist,           \* the calls issued so far: the number of Add calls, the
                    \* sum of their deltas, whether all were Add(1), whether
                    \* no delta was negative, the number of RenderBlank calls
    sinkFailed,     \* whether the sink has ever been unhealthy
    lastLineAt,     \* the time at which an Add call last drew a line
    pc, kind, num, tmp, wid, res, loc
                    \* threads: position, call, argument, count read at line
                    \* 305, width returned at line 393, result of the last
                    \* call, local variables of renderProgressBar

vars == <<state, config, lock, now, term, writerOK, completions, ret, lastOp,
          ev, hist, sinkFailed, lastLineAt, pc, kind, num, tmp, wid, res, loc>>

\* ------------------------------------------------------------------------
\* Arithmetic of the Go code
\* ------------------------------------------------------------------------
Abs(x) == IF x < 0 THEN 0 - x ELSE x

\* Go's integer % : the sign of the result follows the dividend
GoRem(a, b) == IF a < 0 THEN 0 - (Abs(a) % Abs(b)) ELSE a % Abs(b)

\* time.Since(t), in milliseconds
Since(t, clock) == clock - t

\* number of characters of the decimal form of n
Digits[n \in Int] ==
    IF n < 0 THEN 1 + Digits[0 - n]
    ELSE IF n < 10 THEN 1 ELSE 1 + Digits[n \div 10]

\* ------------------------------------------------------------------------
\* float64 arithmetic of the Go code: IEEE-754 binary64, every operation
\* rounded to the nearest float64, ties to the even significand.  The
\* operations are functions, so that an argument is a value when the
\* operation begins.
\* ------------------------------------------------------------------------
\* A natural number of any size is the sequence of its digits in base
\* LimbBase, the least significant first and the last one not 0; <<>> is 0.
LimbBits == 15
LimbBase == 2^LimbBits
Number == Seq(Nat)
\* a quotient with its remainder
QuoRem == [q : Number, r : Number]
\* the bits of the significand of a float64
Significand == 53

\* the natural number n, n < 2^31
Big[n \in Nat] ==
    IF n = 0 THEN <<>> ELSE <<n % LimbBase>> \o Big[n \div LimbBase]

\* the integer a, a < 2^31
Small[a \in Number] ==
    IF a = <<>> THEN 0 ELSE Head(a) + LimbBase * Small[Tail(a)]

\* a without its leading zero digits
Trim[a \in Number] ==
    IF a # <<>> /\ a[Len(a)] = 0 THEN Trim[SubSeq(a, 1, Len(a) - 1)] ELSE a

\* the sign of a - b
Cmp[a \in Number, b \in Number] ==
    LET At[i \in Nat] ==
            IF i = 0 THEN 0
            ELSE IF a[i] < b[i] THEN 0 - 1
            ELSE IF a[i] > b[i] THEN 1
            ELSE At[i - 1]
    IN  IF Len(a) < Len(b) THEN 0 - 1
        ELSE IF Len(a) > Len(b) THEN 1
        ELSE At[Len(a)]

\* a + b
Plus[a \in Number, b \in Number] ==
    LET Digit(x, i) == IF i <= Len(x) THEN x[i] ELSE 0
        At[i \in Nat, carry \in Nat] ==
            IF i > Len(a) /\ i > Len(b)
            THEN IF carry = 0 THEN <<>> ELSE <<carry>>
            ELSE <<(Digit(a, i) + Digit(b, i) + carry) % LimbBase>>
                 \o At[i + 1, (Digit(a, i) + Digit(b, i) + carry) \div LimbBase]
    IN  At[1, 0]

\* a - b, for a >= b
Minus[a \in Number, b \in Number] ==
    LET Digit(x, i) == IF i <= Len(x) THEN x[i] ELSE 0
        At[i \in Nat, borrow \in Nat] ==
            IF i > Len(a) THEN <<>>
            ELSE <<(a[i] - Digit(b, i) - borrow + LimbBase) % LimbBase>>
                 \o At[i + 1, IF a[i] - Digit(b, i) - borrow < 0 THEN 1 ELSE 0]
    IN  Trim[At[1, 0]]

\* a * k, for k < LimbBase
Times[a \in Number, k \in Nat] ==
    LET At[i \in Nat, carry \in Nat] ==
            IF i > Len(a) THEN IF carry = 0 THEN <<>> ELSE <<carry>>
            ELSE <<(a[i] * k + carry) % LimbBase>>
                 \o At[i + 1, (a[i] * k + carry) \div LimbBase]
    IN  IF k = 0 THEN <<>> ELSE At[1, 0]

\* a * b
Mul[a \in Number, b \in Number] ==
    IF a = <<>> \/ b = <<>> THEN <<>>
    ELSE IF Len(b) = 1 THEN Times[a, b[1]]
    ELSE Plus[Times[a, b[1]], <<0>> \o Mul[a, Tail(b)]]

\* 2^n as an integer, for n < 31
TwoTo[n \in Nat] == IF n = 0 THEN 1 ELSE 2 * TwoTo[n - 1]

\* a * 2^n
ShiftLeft[a \in Number, n \in Nat] ==
    IF a = <<>> THEN <<>>
    ELSE [i \in 1..(n \div LimbBits) |-> 0] \o Times[a, TwoTo[n % LimbBits]]

\* the number of bits of a
BitLen[a \in Number] ==
    LET Bits[d \in Nat] == IF d = 0 THEN 0 ELSE 1 + Bits[d \div 2]
    IN  IF a = <<>> THEN 0 ELSE LimbBits * (Len(a) - 1) + Bits[a[Len(a)]]

\* a \div k and a % k, for 0 < k < LimbBase: the digits of a from the most
\* significant one, rem being the remainder and quo the quotient so far
DivSmall[a \in Number, k \in Nat] ==
    LET At[i \in Nat, rem \in Nat, quo \in Number] ==
            IF i = 0 THEN [q |-> Trim[quo], r |-> Big[rem]]
            ELSE At[i - 1, (rem * LimbBase + a[i]) % k,
                    <<(rem * LimbBase + a[i]) \div k>> \o quo]
    IN  At[Len(a), 0, <<>>]

\* a \div 2^n
ShiftRight[a \in Number, n \in Nat] ==
    DivSmall[SubSeq(a, n \div LimbBits + 1, Len(a)), TwoTo[n % LimbBits]].q

\* a \div 2^n and a % 2^n
Split[a \in Number, n \in Nat] ==
    LET Of[q \in Number] == [q |-> q, r |-> Minus[a, ShiftLeft[q, n]]]
    IN  Of[ShiftRight[a, n]]

\* a \div b and a % b, for b # 0: the long division.  The divisor is scaled
\* to a leading digit of at least LimbBase/2, so that a digit of the
\* quotient estimated from the leading digits is at most 2 too large.
DivMod[a \in Number, b \in Number] ==
    LET n == Len(b)
        scale == LimbBits - (BitLen[b] - LimbBits * (Len(b) - 1))
        Lead(r) == IF Len(r) > n THEN r[n + 1] * LimbBase + r[n]
                   ELSE IF Len(r) = n THEN r[n] ELSE 0
        Guess(r, d) == IF Lead(r) \div d[n] > LimbBase - 1 THEN LimbBase - 1
                       ELSE Lead(r) \div d[n]
        \* the digit g of the quotient of r by d, prod being d * g
        Digit[d \in Number, r \in Number, g \in Nat, prod \in Number] ==
            IF Cmp[prod, r] > 0 THEN Digit[d, r, g - 1, Minus[prod, d]]
            ELSE [q |-> g, r |-> Minus[r, prod]]
        Down[d \in Number, r \in Number] ==
            Digit[d, r, Guess(r, d), Times[d, Guess(r, d)]]
        \* the digits of x from the most significant one, last being the
        \* digit found last with its remainder, quo the digits before it
        At[x \in Number, d \in Number, i \in Nat, last \in [q : Nat, r : Number],
           quo \in Number] ==
            IF i = 0 THEN [q |-> Trim[<<last.q>> \o quo], r |-> last.r]
            ELSE At[x, d, i - 1, Down[d, Trim[<<x[i]>> \o last.r]],
                    <<last.q>> \o quo]
        From[x \in Number, d \in Number] ==
            At[x, d, Len(x), [q |-> 0, r |-> <<>>], <<>>]
        Unscaled[d \in QuoRem] == [q |-> d.q, r |-> ShiftRight[d.r, scale]]
    IN  IF n = 1 THEN DivSmall[a, b[1]]
        ELSE Unscaled[From[ShiftLeft[a, scale], ShiftLeft[b, scale]]]

\* A float64 is its sign (-1, 0 or 1), its significand, an odd natural
\* number of at most Significand bits, and its exponent: the number is
\* sgn * man * 2^exp.  Zero has no significand and the sign 0 (the code
\* does nothing that tells -0 from 0); an infinity has a sign and no
\* significand, and NaN the sign 0 and a significand.  The finite numbers
\* the code computes are neither subnormal nor beyond the largest float64.
Sign == {0 - 1, 0, 1}
Float64 == [sgn : Sign, man : Number, exp : Int]
Zero == [sgn |-> 0, man |-> <<>>, exp |-> 0]
NaN == [sgn |-> 0, man |-> <<1>>, exp |-> 0]
Inf(sgn) == [sgn |-> sgn, man |-> <<>>, exp |-> 0]
IsNaN(a) == a.sgn = 0 /\ a.man # <<>>
IsInf(a) == a.sgn # 0 /\ a.man = <<>>

\* sgn * n * 2^e for n # 0 with its significand made odd
Odd[sgn \in Sign, n \in Number, e \in Int] ==
    LET Zeros[d \in Nat] == IF d % 2 = 1 THEN 0 ELSE 1 + Zeros[d \div 2]
        Low[i \in Nat] == IF n[i] # 0 THEN LimbBits * (i - 1) + Zeros[n[i]]
                          ELSE Low[i + 1]
        Of[k \in Nat] ==
            [sgn |-> sgn, man |-> ShiftRight[n, k], exp |-> e + k]
    IN  Of[Low[1]]

\* the float64 nearest to sgn * (n + f) * 2^e, where 0 < f < 1 if inexact and
\* f = 0 if not; an inexact n has more than Significand + 1 bits
Float[sgn \in Sign, n \in Number, e \in Int, inexact \in BOOLEAN] ==
    LET drop == BitLen[n] - Significand
        \* d is n without its last k bits, and by is the sign of what these
        \* bits are more than a half
        Up[d \in QuoRem, by \in Sign] ==
            by > 0 \/ (by = 0 /\ (inexact \/ d.q[1] % 2 = 1))
        \* no bit is dropped of a number the significand holds
        Rounded[d \in QuoRem, k \in Nat] ==
            Odd[sgn, IF k > 0 /\ Up[d, Cmp[d.r, ShiftLeft[<<1>>, k - 1]]]
                     THEN Plus[d.q, <<1>>] ELSE d.q,
                e + k]
    IN  IF sgn = 0 \/ n = <<>> THEN Zero
        ELSE Rounded[IF drop > 0 THEN Split[n, drop] ELSE [q |-> n, r |-> <<>>],
                     IF drop > 0 THEN drop ELSE 0]

\* float64(n) of an integer n, n < 2^31, which the significand holds
FromInt[n \in Int] ==
    IF n = 0 THEN Zero
    ELSE Odd[IF n < 0 THEN 0 - 1 ELSE 1, Big[IF n < 0 THEN 0 - n ELSE n], 0]

\* -a
FNeg[a \in Float64] == [a EXCEPT !.sgn = 0 - a.sgn]

\* a + b, for finite a and b
FAdd[a \in Float64, b \in Float64] ==
    LET e == IF a.exp < b.exp THEN a.exp ELSE b.exp
        \* by is the sign of x - y: the sum has the sign of the greater
        Sum[x \in Number, y \in Number, by \in Sign] ==
            Float[IF a.sgn = b.sgn \/ by > 0 THEN a.sgn
                  ELSE IF by < 0 THEN b.sgn ELSE 0,
                  IF a.sgn = b.sgn THEN Plus[x, y]
                  ELSE IF by > 0 THEN Minus[x, y]
                  ELSE IF by < 0 THEN Minus[y, x] ELSE <<>>,
                  e, FALSE]
        Aligned[x \in Number, y \in Number] == Sum[x, y, Cmp[x, y]]
    IN  IF a.sgn = 0 THEN b
        ELSE IF b.sgn = 0 THEN a
        ELSE Aligned[ShiftLeft[a.man, a.exp - e], ShiftLeft[b.man, b.exp - e]]

\* a * b
FMul[a \in Float64, b \in Float64] ==
    IF IsNaN(a) \/ IsNaN(b) THEN NaN
    ELSE IF IsInf(a) \/ IsInf(b)
         THEN IF a.sgn * b.sgn = 0 THEN NaN ELSE Inf(a.sgn * b.sgn)
    ELSE Float[a.sgn * b.sgn, Mul[a.man, b.man], a.exp + b.exp, FALSE]

\* a / b: the quotient of the significands is computed to three bits more
\* than the significand holds, or more
FDiv[a \in Float64, b \in Float64] ==
    LET shift == Significand + 3 + BitLen[b.man] - BitLen[a.man]
        Of[d \in QuoRem] ==
            Float[a.sgn * b.sgn, d.q, a.exp - b.exp - shift, d.r # <<>>]
    IN  IF IsNaN(a) \/ IsNaN(b) THEN NaN
        ELSE IF IsInf(a) THEN IF IsInf(b) THEN NaN
                              ELSE Inf(IF b.sgn < 0 THEN 0 - a.sgn ELSE a.sgn)
        ELSE IF IsInf(b) THEN Zero
        ELSE IF b.sgn = 0 THEN IF a.sgn = 0 THEN NaN ELSE Inf(a.sgn)
        ELSE IF a.sgn = 0 THEN Zero
        ELSE Of[DivMod[ShiftLeft[a.man, shift], b.man]]

\* the integer part of |a| and its fraction, in units of 2^a.exp, for a
\* finite a
Whole[a \in Float64] ==
    IF a.sgn = 0 THEN [q |-> <<>>, r |-> <<>>]
    ELSE IF a.exp >= 0 THEN [q |-> ShiftLeft[a.man, a.exp], r |-> <<>>]
    ELSE Split[a.man, 0 - a.exp]

\* |a| rounded to the nearest integer, ties to even: the digits "%.0f" prints
Nearest[a \in Float64] ==
    LET Up[d \in QuoRem, by \in Sign] ==
            by > 0 \/ (by = 0 /\ d.q # <<>> /\ d.q[1] % 2 = 1)
        Of[d \in QuoRem] ==
            IF Up[d, Cmp[d.r, ShiftLeft[<<1>>, 0 - a.exp - 1]]]
            THEN Plus[d.q, <<1>>] ELSE d.q
    IN  IF a.sgn = 0 \/ a.exp >= 0 THEN Whole[a].q ELSE Of[Whole[a]]

\* the number of decimal digits of a ("0" for 0)
DecLen[a \in Number] ==
    IF Len(a) = 0 THEN 1
    ELSE IF Len(a) = 1 /\ a[1] < 10 THEN 1
    ELSE 1 + DecLen[DivSmall[a, 10].q]

\* 1, 10 = 5 * 2, 100 = 25 * 4 and 0.5
One == [sgn |-> 1, man |-> <<1>>, exp |-> 0]
Ten == [sgn |-> 1, man |-> <<5>>, exp |-> 1]
Hundred == [sgn |-> 1, man |-> <<25>>, exp |-> 2]
Half == [sgn |-> 1, man |-> <<1>>, exp |-> 0 - 1]

\* int(x) of a finite x, |x| < 2^31: x without its fraction
Truncated[x \in Float64] == x.sgn * Small[Whole[x].q]

\* lines 326 and 328: int(percent * 100), percent being
\* float64(n) / float64(max)
Percent(n, max) == Truncated[FMul[FDiv[FromInt[n], FromInt[max]], Hundred]]

\* lines 326-327: int(percent * float64(width))
SaucerSize(n, max, width) ==
    Truncated[FMul[FDiv[FromInt[n], FromInt[max]], FromInt[width]]]

\* line 536: int(float64(percent) / 100.0 * float64(width))
FullSaucerSize(percent, width) ==
    Truncated[FMul[FDiv[FromInt[percent], Hundred], FromInt[width]]]

\* ------------------------------------------------------------------------
\* Durations
\* ------------------------------------------------------------------------
\* time.Duration.Seconds() of a time of ms milliseconds:
\* float64(sec) + float64(nsec)/1e9.  The quotient nsec/1e9 is that of the
\* milliseconds by 1000, and a division rounds the exact quotient.
Seconds[ms \in Nat] ==
    FAdd[FromInt[ms \div Second], FDiv[FromInt[ms % Second], FromInt[Second]]]

\* A time.Duration is an int64 of nanoseconds, here its sign and the natural
\* number of nanoseconds.
Int64Bits == 64
Duration == [sgn : Sign, ns : Number]
ZeroDuration == [sgn |-> 0, ns |-> <<>>]

\* the int64 that is sgn * u modulo 2^64, for u < 2^64
Int64[sgn \in Sign, u \in Number] ==
    IF u = <<>> THEN ZeroDuration
    ELSE IF BitLen[u] < Int64Bits
         THEN [sgn |-> sgn, ns |-> u]
    ELSE IF sgn < 0 /\ u = ShiftLeft[<<1>>, Int64Bits - 1]
         THEN [sgn |-> sgn, ns |-> u]
    ELSE [sgn |-> 0 - sgn, ns |-> Minus[ShiftLeft[<<1>>, Int64Bits], u]]

\* time.Duration(p) * time.Second, lines 506 and 513, for a finite p whose
\* integer part is an int64: the integer part times 10^9, which overflows
\* modulo 2^64
InSeconds[p \in Float64] ==
    Int64[p.sgn,
          Split[Mul[Whole[p].q, Big[Nanoseconds]], Int64Bits].r]

\* The text of a duration, by the numbers time.Duration.String() prints;
\* NoText is the empty string.
NoText == [shown |-> FALSE, neg |-> FALSE, hours |-> 0, minutes |-> 0,
           seconds |-> 0, nanos |-> 0]

\* time.Duration.String(): hours, minutes and seconds with the nanoseconds
\* as the fraction of the seconds
DurationString[d \in Duration] ==
    LET Text[nanos \in Nat, seconds \in Nat, hours \in QuoRem] ==
            [shown |-> TRUE, neg |-> d.sgn < 0, hours |-> Small[hours.q],
             minutes |-> Small[hours.r], seconds |-> seconds,
             nanos |-> nanos]
        Minutes[nanos \in Nat, mins \in QuoRem] ==
            Text[nanos, Small[mins.r], DivSmall[mins.q, 60]]
        Of[secs \in QuoRem] == Minutes[Small[secs.r], DivSmall[secs.q, 60]]
    IN  Of[DivMod[d.ns, Big[Nanoseconds]]]

\* the characters fmtFrac prints for the fraction v of prec digits: none
\* for 0, else the point and the digits without the trailing zeros
FracLen[v \in Nat, prec \in Nat] ==
    IF v = 0 THEN 0
    ELSE IF v % 10 = 0 THEN FracLen[v \div 10, prec - 1]
    ELSE prec + 1

\* the columns of the text x: "0s", "12ns", "1.5us" (with the micro sign),
\* "1.5ms", "59s", "1m0.5s", "1h0m0s"; a duration below a second is printed
\* in a smaller unit
DurationLen(x) ==
    IF ~x.shown THEN 0
    ELSE (IF x.neg THEN 1 ELSE 0)
         + (IF x.hours = 0 /\ x.minutes = 0 /\ x.seconds = 0
            THEN IF x.nanos = 0 THEN 2
                 ELSE IF x.nanos < 1000 THEN Digits[x.nanos] + 2
                 ELSE IF x.nanos < 1000000
                      THEN Digits[x.nanos \div 1000]
                           + FracLen[x.nanos % 1000, 3] + 2
                 ELSE Digits[x.nanos \div 1000000]
                      + FracLen[x.nanos % 1000000, 6] + 2
            ELSE (IF x.hours > 0 THEN Digits[x.hours] + 1 ELSE 0)
                 + (IF x.hours > 0 \/ x.minutes > 0
                    THEN Digits[x.minutes] + 1 ELSE 0)
                 + Digits[x.seconds] + FracLen[x.nanos, 9] + 1)

\* len(x), in bytes: the micro sign takes two bytes and one column
DurationBytes(x) ==
    IF /\ x.shown /\ x.hours = 0 /\ x.minutes = 0 /\ x.seconds = 0
       /\ x.nanos >= 1000 /\ x.nanos < 1000000
    THEN DurationLen(x) + 1 ELSE DurationLen(x)

\* ------------------------------------------------------------------------
\* Rates
\* ------------------------------------------------------------------------
\* line 318: float64(count) / elapsed.Seconds(), for ms > 0
RateOf[count \in Int, ms \in Nat] == FDiv[FromInt[count], Seconds[ms]]

\* average(xs), lines 679-685: the sum from the first rate on, over the
\* number of rates; NaN for no rate
average[xs \in Seq(Float64)] ==
    LET From[i \in Nat, total \in Float64] ==
            IF i > Len(xs) THEN total ELSE From[i + 1, FAdd[total, xs[i]]]
    IN  FDiv[From[1, Zero], FromInt[Len(xs)]]

\* lines 446-450: the total rate, t being the seconds since the start
TotalRate[bytes \in Int, t \in Float64] ==
    IF t.sgn > 0 THEN FDiv[FromInt[bytes], t] ELSE Zero

\* lines 658-673: the length of the number humanizeBytes returns for s,
\* for s < 1024, where the suffix is " B": "%2.0f" below 10, else the
\* value rounded to a tenth, which is 10 or more and printed with "%.0f".
\* The rounding math.Floor(s*10+0.5)/10 is done in float64.
HumanizedLen[s \in Float64] ==
    LET Padded[len \in Nat] == IF len < 2 THEN 2 ELSE len
        Floor[x \in Float64] == Float[1, Whole[x].q, 0, FALSE]
    IN  IF s.sgn <= 0 \/ Cmp[Whole[s].q, <<10>>] < 0
        THEN Padded[(IF s.sgn < 0 THEN 1 ELSE 0) + DecLen[Nearest[s]]]
        ELSE DecLen[Nearest[FDiv[Floor[FAdd[FMul[s, Ten], Half]], Ten]]]

\* the length of the suffix " B" of humanizeBytes
SuffixLen == 2

\* F(x), x being computed once, however often F uses it
Value(F(_), x) == CHOOSE y \in {F(v) : v \in {x}} : TRUE

\* ------------------------------------------------------------------------
\* The environment of a call and the output sink
\* ------------------------------------------------------------------------
\* what a call reads outside the bar: the clock, the health of the sink and
\* the width of the terminal
Env(clock, ok, cols) == [now |-> clock, ok |-> ok, cols |-> cols]

\* lines 687-697: the width of the terminal; the error is always nil, so the
\* fallback of line 519 is never taken
termWidth(e) == e.cols

\* lines 424-437: the error of a write to the sink
writeString(ok) == IF ok THEN "nil" ELSE "WriteFailure"

\* the trace entry of a write of what, and of a call of onCompletion
Out(what, ok) == [what |-> what, ok |-> ok]
Callback == [what |-> "onCompletion", ok |-> TRUE]

\* lines 409-422
clearProgressBar(c, s, ok) ==
    IF s.maxLineWidth = 0 THEN [err |-> "nil", ev |-> <<>>]
    ELSE IF c.useANSICodes
         THEN [err |-> writeString(ok), ev |-> <<Out("erase", ok)>>]
         ELSE [err |-> writeString(ok), ev |-> <<Out("clear", ok)>>]

\* ------------------------------------------------------------------------
\* renderProgressBar: the line drawn for the state s
\* ------------------------------------------------------------------------
\* A rendered line is the record of its segments: the percentage, the
\* numbers of fill and padding glyphs and the head glyph, the track width the
\* head test and the padding were computed with, which times are shown and
\* their texts, the length of the parenthesised segment and whether it
\* holds the count and the rate, and the byte total it prints.
NoLine == [kind |-> "none", percent |-> 0, saucer |-> 0, head |-> "none",
           padding |-> 0, track |-> 0, times |-> "none", elapsed |-> NoText,
           remaining |-> NoText, info |-> FALSE, rate |-> FALSE,
           infoLen |-> 0, bytes |-> 0]

\* a glyph of a theme: raw is the number of characters of the string (0 for
\* the empty string), shown its width once colorstring.Color has replaced
\* its colour codes
Glyph(raw, shown) == [raw |-> raw, shown |-> shown]
NoGlyph == Glyph(0, 0)

\* lines 702-723, for a glyph: the colour codes take no column only when
\* colorCodes is set
GlyphWidth(c, g) == IF c.colorCodes THEN g.shown ELSE g.raw

\* lines 460-479: the length of the count, current being the length of
\* the byte total as lines 462 and 475 humanize it
CountFormat(c, bytes, current) ==
    IF ~c.ignoreLength
    THEN IF c.showBytes THEN current + 1 + c.maxHumanized + SuffixLen
         ELSE Digits[bytes] + 1 + Digits[c.max]
    ELSE IF c.showBytes THEN current + SuffixLen
         ELSE Digits[bytes] + 2

\* lines 454-481: the length of the count, without the parentheses, bytes
\* being the byte total read
CountLen(c, bytes) ==
    IF ~c.showIterationsCount THEN 0
    ELSE CountFormat(c, bytes,
                     IF c.showBytes THEN HumanizedLen[FromInt[bytes]] ELSE 0)

\* line 484: the rate is shown
RateShown(c, rate) == c.showBytes /\ rate.sgn > 0 /\ ~IsInf(rate)

\* lines 490-491: the length of the rate, as "12 B/s"
RateLen(c, rate) ==
    IF RateShown(c, rate) THEN HumanizedLen[rate] + SuffixLen + 2 ELSE 0

\* lines 454-496: sb.Len()
SegmentsLen(count, rate) ==
    IF count > 0 /\ rate > 0 THEN 1 + count + 2 + rate + 1
    ELSE IF count > 0 THEN 1 + count + 1
    ELSE IF rate > 0 THEN 1 + rate + 1
    ELSE 0

\* line 513: the whole seconds since the start
Elapsed(s, clock) ==
    DurationString[InSeconds[Seconds[Since(s.startTime, clock)]]]

\* lines 506-509, p being the product (1/averageRate)*(max-currentNum): the
\* remaining time, not below 0.  A product that is NaN, infinite or beyond
\* the int64 converts to an integer that depends on the processor: the
\* least int64, the greatest one or 0.  Times 10^9 modulo 2^64 these are 0,
\* -10^9 and 0, and lines 507-509 make 0 of a negative duration.
NotNegative[p \in Float64] ==
    LET Of[d \in Duration] == IF d.sgn < 0 THEN ZeroDuration ELSE d
    IN  IF IsNaN(p) \/ IsInf(p) THEN ZeroDuration
        ELSE IF BitLen[Whole[p].q] >= Int64Bits THEN ZeroDuration
        ELSE Of[InSeconds[p]]

\* lines 506-510: rightBrac
Remaining(c, s, rate) ==
    DurationString[NotNegative[
        FMul[FDiv[One, rate],
             FAdd[FromInt[c.max], FNeg[FromInt[s.currentNum]]]]]]

\* lines 522-533: no option of src/ sets showDescriptionAtLineEnd
Amend(left, right) ==
    IF left.shown THEN 4 ELSE IF right.shown THEN 3 ELSE 1

\* line 535: the width of the track that the terminal leaves, which may be
\* negative; d holds the local variables of the call
FullWidth(c, d, e) ==
    termWidth(e) - c.description - FixedColumns - Amend(d.left, d.right)
    - d.line.infoLen - DurationBytes(d.left) - DurationBytes(d.right)

\* lines 567-570
RepeatAmount(size, track) == IF track - size < 0 THEN 0 ELSE track - size

\* the width of the head glyph of a line
HeadWidth(c, l) ==
    CASE l.head = "AltSaucerHead" -> GlyphWidth(c, c.theme.AltSaucerHead)
      [] l.head = "SaucerHead" -> GlyphWidth(c, c.theme.SaucerHead)
      [] l.head = "Saucer" -> GlyphWidth(c, c.theme.Saucer)
      [] OTHER -> 0

\* the width of "%4d%% " and of the bar between and with its ends, line 604
BarLen(c, l) ==
    (IF Digits[l.percent] > 4 THEN Digits[l.percent] ELSE 4) + 2
    + GlyphWidth(c, c.theme.BarStart)
    + l.saucer * GlyphWidth(c, c.theme.Saucer) + HeadWidth(c, l)
    + l.padding * GlyphWidth(c, c.theme.SaucerPadding)
    + GlyphWidth(c, c.theme.BarEnd)

\* line 655, getStringWidth of the line, whose formats are those of lines
\* 574-646; a glyph of the spinner is one column wide
LineWidth(c, l) ==
    CASE l.kind = "spinner" /\ l.times = "none" ->
             3 + c.description + l.infoLen + 1
      [] l.kind = "spinner" ->
             3 + c.description + l.infoLen + 2 + DurationLen(l.elapsed) + 2
      [] l.times = "none" /\ ~c.predictTime ->
             c.description + BarLen(c, l) + 1 + l.infoLen + 1
      [] l.times = "none" ->
             c.description + BarLen(c, l) + 1 + l.infoLen
      [] OTHER ->
             c.description + BarLen(c, l) + 1 + l.infoLen + 4
             + DurationLen(l.elapsed) + DurationLen(l.remaining)

\* The local variables of a call of renderProgressBar: the statement the
\* call is at, averageRate, leftBrac, rightBrac, the fill computed at line
\* 536, the line as far as it is built, and the width and the error the
\* call returns.  A call begins at line 442.
NoDrawing == [at |-> "average", rate |-> Zero, left |-> NoText,
              right |-> NoText, size |-> 0, line |-> NoLine, w |-> 0,
              err |-> "nil"]

\* A statement of renderProgressBar(c, &s) takes the frame f, the state f.s
\* of the bar with the local variables f.d of the call, to the frame after
\* it.
\* line 442
DrawAverage(c, f, e) ==
    [f EXCEPT !.d.rate = average[f.s.counterLastTenRates],
              !.d.at = "history"]

\* line 443, the length of the history
DrawHistory(c, f, e) ==
    [f EXCEPT !.d.at = IF Len(f.s.counterLastTenRates) = 0
                       THEN "total" ELSE "ended"]

\* line 443, the finished flag
DrawEnded(c, f, e) ==
    [f EXCEPT !.d.at = IF f.s.finished THEN "total" ELSE "count"]

\* lines 446-450
DrawTotal(c, f, e) ==
    [f EXCEPT !.d.rate = TotalRate[f.s.currentBytes,
                                   Seconds[Since(f.s.startTime, e.now)]],
              !.d.at = "count"]

\* lines 454-496: the count and the rate in their parentheses
DrawCount(c, f, e) ==
    [f EXCEPT !.d.line.info = c.showIterationsCount,
              !.d.line.bytes = IF c.showIterationsCount
                               THEN f.s.currentBytes ELSE 0,
              !.d.line.rate = RateShown(c, f.d.rate),
              !.d.line.infoLen = SegmentsLen(CountLen(c, f.s.currentBytes),
                                             RateLen(c, f.d.rate)),
              !.d.at = "times"]

\* lines 504-514
DrawTimes(c, f, e) ==
    [f EXCEPT !.d.right = IF c.predictTime
                          THEN Remaining(c, f.s, f.d.rate) ELSE NoText,
              !.d.left = IF c.predictTime \/ c.elapsedTime
                         THEN Elapsed(f.s, e.now) ELSE NoText,
              !.d.at = "track"]

\* lines 516-536: with fullWidth and a known length the track is what the
\* terminal leaves, and the fill is computed anew from the percentage
DrawTrack(c, f, e) ==
    IF c.fullWidth /\ ~c.ignoreLength
    THEN [f EXCEPT !.d.size = FullSaucerSize(f.s.currentPercent,
                                             FullWidth(c, f.d, e)),
                   !.d.line.track = FullWidth(c, f.d, e),
                   !.d.at = "resize"]
    ELSE [f EXCEPT !.d.line.track = c.width, !.d.at = "fill"]

\* line 536: the fill computed is left in the state
DrawResize(c, f, e) ==
    [f EXCEPT !.s.currentSaucerSize = f.d.size, !.d.at = "fill"]

\* line 538
DrawFill(c, f, e) ==
    [f EXCEPT !.d.at = IF f.s.currentSaucerSize > 0 THEN "saucer"
                       ELSE "padding"]

\* lines 539-543: strings.Repeat panics when the count is negative
DrawSaucer(c, f, e) ==
    IF f.s.currentSaucerSize - 1 < 0 THEN [f EXCEPT !.d.at = "panic"]
    ELSE [f EXCEPT !.d.line.saucer = f.s.currentSaucerSize - 1,
                   !.d.at = "head"]

\* line 546: an alternate head is set and it is its turn
DrawHead(c, f, e) ==
    [f EXCEPT !.d.at = IF c.theme.AltSaucerHead.raw > 0
                          /\ f.s.isAltSaucerHead
                       THEN "alternate" ELSE "plain"]

\* lines 547-548
DrawAlternate(c, f, e) ==
    [f EXCEPT !.d.line.head = "AltSaucerHead",
              !.s.isAltSaucerHead = FALSE,
              !.d.at = "padding"]

\* lines 549-554: the saucer is the head when no head is set or the track
\* is full
DrawPlain(c, f, e) ==
    IF c.theme.SaucerHead.raw = 0
       \/ f.s.currentSaucerSize = f.d.line.track
    THEN [f EXCEPT !.d.line.head = "Saucer", !.d.at = "padding"]
    ELSE [f EXCEPT !.d.line.head = "SaucerHead", !.d.at = "toggle"]

\* line 555
DrawToggle(c, f, e) ==
    [f EXCEPT !.s.isAltSaucerHead = TRUE, !.d.at = "padding"]

\* lines 567-570
DrawPadding(c, f, e) ==
    [f EXCEPT !.d.line.padding =
                  RepeatAmount(f.s.currentSaucerSize, f.d.line.track),
              !.d.at = "branch"]

\* DrawBranch with the [elapsed:remaining] segment kept at 100%
DrawBranch_TimesAtHundred(c, f, e) ==
    IF c.ignoreLength
    THEN [f EXCEPT !.d.line.kind = "spinner",
                   !.d.line.saucer = 0, !.d.line.head = "none",
                   !.d.line.padding = 0,
                   !.d.line.times = IF c.elapsedTime THEN "elapsed"
                                    ELSE "none",
                   !.d.line.elapsed = IF c.elapsedTime THEN f.d.left
                                      ELSE NoText,
                   !.d.at = "store"]
    ELSE IF ~f.d.right.shown
         THEN [f EXCEPT !.d.line.kind = "bar", !.d.at = "format"]
    ELSE [f EXCEPT !.d.line.kind = "bar",
                   !.d.line.times = "elapsed:remaining",
                   !.d.line.elapsed = f.d.left,
                   !.d.line.remaining = f.d.right,
                   !.d.at = "format"]

\* lines 574, 576, 603 and 619: the format of the line.  The line of the
\* spinner holds no bar; that of a known length holds the times unless
\* rightBrac is empty or the percentage is 100
DrawBranch(c, f, e) ==
    IF c.ignoreLength
    THEN [f EXCEPT !.d.line.kind = "spinner",
                   !.d.line.saucer = 0, !.d.line.head = "none",
                   !.d.line.padding = 0,
                   !.d.line.times = IF c.elapsedTime THEN "elapsed"
                                    ELSE "none",
                   !.d.line.elapsed = IF c.elapsedTime THEN f.d.left
                                      ELSE NoText,
                   !.d.at = "store"]
    ELSE IF ~f.d.right.shown \/ f.s.currentPercent = 100
         THEN [f EXCEPT !.d.line.kind = "bar", !.d.at = "format"]
    ELSE [f EXCEPT !.d.line.kind = "bar",
                   !.d.line.times = "elapsed:remaining",
                   !.d.line.elapsed = f.d.left,
                   !.d.line.remaining = f.d.right,
                   !.d.at = "format"]

\* lines 604, 620 and 629: the percentage printed
DrawFormat(c, f, e) ==
    [f EXCEPT !.d.line.percent = f.s.currentPercent, !.d.at = "store"]

\* lines 653-655: the line is stored and written
DrawStore(c, f, e) ==
    [f EXCEPT !.s.rendered = f.d.line,
              !.d.w = LineWidth(c, f.d.line),
              !.d.err = writeString(e.ok),
              !.d.at = "done"]

\* the statement of renderProgressBar the frame f is at
DrawStep(c, f, e) ==
    CASE f.d.at = "average" -> DrawAverage(c, f, e)
      [] f.d.at = "history" -> DrawHistory(c, f, e)
      [] f.d.at = "ended" -> DrawEnded(c, f, e)
      [] f.d.at = "total" -> DrawTotal(c, f, e)
      [] f.d.at = "count" -> DrawCount(c, f, e)
      [] f.d.at = "times" -> DrawTimes(c, f, e)
      [] f.d.at = "track" -> DrawTrack(c, f, e)
      [] f.d.at = "resize" -> DrawResize(c, f, e)
      [] f.d.at = "fill" -> DrawFill(c, f, e)
      [] f.d.at = "saucer" -> DrawSaucer(c, f, e)
      [] f.d.at = "head" -> DrawHead(c, f, e)
      [] f.d.at = "alternate" -> DrawAlternate(c, f, e)
      [] f.d.at = "plain" -> DrawPlain(c, f, e)
      [] f.d.at = "toggle" -> DrawToggle(c, f, e)
      [] f.d.at = "padding" -> DrawPadding(c, f, e)
      [] f.d.at = "branch" -> DrawBranch(c, f, e)
      [] f.d.at = "format" -> DrawFormat(c, f, e)
      [] f.d.at = "store" -> DrawStore(c, f, e)

\* the positions at which a call of renderProgressBar has ended
DrawEnds == {"done", "panic"}

\* the statements of a call from the frame f to its end, no other thread
\* taking a step between them
RECURSIVE Drawing(_, _, _)
Drawing(c, f, e) ==
    IF f.d.at \in DrawEnds THEN f
    ELSE Value(LAMBDA g : Drawing(c, g, e), DrawStep(c, f, e))

\* what the call that ended in the frame f returns and leaves: the state,
\* the width of the line, the error of the write and the trace of the write
Draw(f, e) ==
    [s |-> f.s, w |-> f.d.w, err |-> f.d.err, ev |-> <<Out("line", e.ok)>>]

\* lines 439-656
renderProgressBar(c, s, e) ==
    Value(LAMBDA f : Draw(f, e), Drawing(c, [s |-> s, d |-> NoDrawing], e))

\* ------------------------------------------------------------------------
\* render
\* ------------------------------------------------------------------------
\* line 358: less than the throttle interval since the last line
TooSoon(c, s, clock) == Since(s.lastShown, clock) < c.throttleDuration

\* line 359
BelowMax(c, s) == s.currentNum < c.max

\* Throttled without the exemption of the completing redraw
Throttled_NoFinalRedraw(c, s, clock) ==
    Since(s.lastShown, clock) < c.throttleDuration

\* Throttled with the comparison of the interval inverted
Throttled_Inverted(c, s, clock) ==
    /\ Since(s.lastShown, clock) > c.throttleDuration
    /\ s.currentNum < c.max

\* lines 358-361: the throttle
Throttled(c, s, clock) == TooSoon(c, s, clock) /\ BelowMax(c, s)

\* lines 365-368: render returns the error cl of clearProgressBar, if any
Cleared(cl) == [stop |-> cl.err # "nil", err |-> cl.err, ev |-> cl.ev]

\* lines 363-369: the clearing of the previous line; stop tells that render
\* returns here
renderClear(c, s, e) ==
    IF c.useANSICodes THEN [stop |-> FALSE, err |-> "nil", ev |-> <<>>]
    ELSE Cleared(clearProgressBar(c, s, e.ok))

\* lines 356-369: the throttle and the clearing of the previous line
renderEnter(c, s, e) ==
    IF Throttled(c, s, e.now) THEN [stop |-> TRUE, err |-> "nil", ev |-> <<>>]
    ELSE renderClear(c, s, e)

\* line 372, the count
AtMax(c, s) == s.currentNum >= c.max

\* line 372 with only a count beyond max taken as finished
FinishDue_Strict(c, s) == ~s.finished /\ s.currentNum > c.max

\* line 372: the test of the finish transition
FinishDue(c, s) == ~s.finished /\ AtMax(c, s)

\* line 373: the state after the test of line 372
Marked(c, s) == IF FinishDue(c, s) THEN [s EXCEPT !.finished = TRUE] ELSE s

\* render calls renderProgressBar at line 375, for the final line, or at
\* line 393, for the line of a bar that is not finished
Draws(c, s) == IF FinishDue(c, s) THEN ~c.clearOnFinish ELSE ~s.finished

\* a call of renderProgressBar that is not made
NoDraw(s) == [s |-> s, w |-> 0, err |-> "nil", ev |-> <<>>]

\* lines 375 and 393: the one call of renderProgressBar that render makes,
\* on the state line 373 leaves
renderDraw(c, s, e) ==
    IF Draws(c, s) THEN renderProgressBar(c, Marked(c, s), e)
    ELSE NoDraw(Marked(c, s))

\* Finished with onCompletion called before the final line is written
Finished_CallbackFirst(c, r) ==
    [s  |-> r.s,
     ev |-> (IF c.onCompletion THEN <<Callback>> ELSE <<>>) \o r.ev,
     cb |-> IF c.onCompletion THEN 1 ELSE 0]

\* lines 374-379: r is the drawing of the final line, which is made unless
\* clearOnFinish; then onCompletion is called
Finished(c, r) ==
    [s  |-> r.s,
     ev |-> r.ev \o (IF c.onCompletion THEN <<Callback>> ELSE <<>>),
     cb |-> IF c.onCompletion THEN 1 ELSE 0]

\* lines 371-380: the finish transition, r being the call of
\* renderProgressBar made; cb counts the calls of onCompletion
finishTransition(c, s, r) ==
    IF FinishDue(c, s) THEN Finished(c, r)
    ELSE [s |-> s, ev |-> <<>>, cb |-> 0]

\* lines 381-390: the bar is finished, f being the finish transition
AfterFinish(c, f, cl) ==
    IF c.useANSICodes /\ c.clearOnFinish
    THEN [s |-> f.s, err |-> cl.err, ev |-> f.ev \o cl.ev, cb |-> f.cb]
    ELSE [s |-> f.s, err |-> "nil", ev |-> f.ev, cb |-> f.cb]

\* lines 398-401: the widest line and the time of the drawing
Shown(s, w, clock) ==
    [s EXCEPT !.maxLineWidth = IF w > s.maxLineWidth THEN w ELSE s.maxLineWidth,
              !.lastShown = clock]

\* lines 393-403: the bar is not finished, r being the drawing of its line
AfterDraw(r, clock) ==
    IF r.err # "nil"
    THEN [s |-> r.s, err |-> r.err, ev |-> r.ev, cb |-> 0]
    ELSE [s |-> Shown(r.s, r.w, clock), err |-> "nil", ev |-> r.ev, cb |-> 0]

\* lines 381-403, f being the finish transition and r the call of
\* renderProgressBar made
renderRest(c, f, r, e) ==
    IF f.s.finished
    THEN AfterFinish(c, f, clearProgressBar(c, f.s, e.ok))
    ELSE AfterDraw(r, e.now)

\* lines 371-403: the finish transition and the drawing of the line
renderFinish(c, s, r, e) == renderRest(c, finishTransition(c, s, r), r, e)

\* render returns at line 360 or 367 (en.stop), or goes on to f
Rendered(s, en, f) ==
    IF en.stop THEN [s |-> s, err |-> en.err, ev |-> en.ev, cb |-> 0, rc |-> 1]
    ELSE [s |-> f.s, err |-> f.err, ev |-> en.ev \o f.ev, cb |-> f.cb, rc |-> 1]

\* p.render(): the new state, the error returned, the trace of writes and
\* callback, the number of calls of onCompletion and of render
render(c, s, e) ==
    IF renderEnter(c, s, e).stop
    THEN Rendered(s, renderEnter(c, s, e), NoDraw(s))
    ELSE Value(LAMBDA r : Rendered(s, renderEnter(c, s, e),
                                   renderFinish(c, s, r, e)),
               renderDraw(c, s, e))
\* ------------------------------------------------------------------------
\* Add64
\* ------------------------------------------------------------------------
\* AddCount without the saturation at max
AddCount_NoSaturation(c, cur, n) ==
    IF c.ignoreLength THEN GoRem(cur + n, c.max) ELSE cur + n

\* AddCount that rolls an overshoot back to max
AddCount_RolledBack(c, cur, n) ==
    IF cur < c.max
    THEN IF c.ignoreLength THEN GoRem(cur + n, c.max)
         ELSE IF cur + n > c.max THEN c.max ELSE cur + n
    ELSE cur

\* AddCount without the wrap of the unknown-length mode
AddCount_NoWrap(c, cur, n) ==
    IF cur < c.max THEN cur + n ELSE cur

\* AddCount that freezes the count only beyond max
AddCount_FrozenBeyondMax(c, cur, n) ==
    IF cur <= c.max
    THEN IF c.ignoreLength THEN GoRem(cur + n, c.max) ELSE cur + n
    ELSE cur

\* AddCount that wraps the count of the unknown-length mode only beyond max
AddCount_WrapBeyondMax(c, cur, n) ==
    IF cur < c.max
    THEN IF c.ignoreLength /\ cur + n > c.max
         THEN GoRem(cur + n, c.max) ELSE cur + n
    ELSE cur

\* lines 305-311: the count after adding n to the loaded count cur
AddCount(c, cur, n) ==
    IF cur < c.max
    THEN IF c.ignoreLength THEN GoRem(cur + n, c.max) ELSE cur + n
    ELSE cur

\* line 316: the count since the last rate
Counted(s, n) == [s EXCEPT !.counterNumSinceLast = s.counterNumSinceLast + n]

\* line 317: more than half a second since counterTime.  Seconds() of whole
\* milliseconds exceeds 0.5 exactly when the milliseconds exceed 500.
RateDue(s, clock) == Since(s.counterTime, clock) > HalfSecond

\* line 318: the rate of the window is appended to the history
PushRate(s, clock) ==
    [s EXCEPT !.counterLastTenRates =
                  Append(s.counterLastTenRates,
                         RateOf[s.counterNumSinceLast,
                                Since(s.counterTime, clock)])]

\* TrimRates that removes the newest rate from a full history
TrimRates_DropNewest(s, clock) ==
    [s EXCEPT !.counterLastTenRates =
                  IF Len(s.counterLastTenRates) > RateHistory
                  THEN SubSeq(s.counterLastTenRates, 1, RateHistory)
                  ELSE s.counterLastTenRates,
              !.counterTime = clock,
              !.counterNumSinceLast = 0]

\* lines 319-323: a history of more than ten rates loses its oldest rate,
\* and the window begins anew
TrimRates(s, clock) ==
    [s EXCEPT !.counterLastTenRates =
                  IF Len(@) > RateHistory THEN Tail(@) ELSE @,
              !.counterTime = clock,
              !.counterNumSinceLast = 0]

\* lines 317-324, s being the state after line 316
Windowed(s, clock) ==
    IF RateDue(s, clock) THEN TrimRates(PushRate(s, clock), clock) ELSE s

\* lines 316-324: the rolling rates
AddRates(s, n, clock) == Windowed(Counted(s, n), clock)

\* UpdateBar without the test for a positive percentage
UpdateBar_AnyChange(currentPercent, lastPercent) ==
    currentPercent # lastPercent

\* line 329
UpdateBar(currentPercent, lastPercent) ==
    currentPercent # lastPercent /\ currentPercent > 0

\* AddState that leaves lastPercent as it was
AddState_StaleLastPercent(c, s, cur, n, clock) ==
    LET cnt == AddCount(c, cur, n)
        s1  == AddRates([s EXCEPT !.currentNum = cnt,
                                  !.currentBytes = s.currentBytes + n], n, clock)
    IN  [s1 EXCEPT !.currentSaucerSize = SaucerSize(cnt, c.max, c.width),
                   !.currentPercent = Percent(cnt, c.max)]

\* AddState whose byte total follows the change of the count
AddState_BytesFollowCount(c, s, cur, n, clock) ==
    LET cnt == AddCount(c, cur, n)
        s1  == AddRates([s EXCEPT !.currentNum = cnt,
                                  !.currentBytes = s.currentBytes + (cnt - cur)],
                        n, clock)
    IN  [s1 EXCEPT !.currentSaucerSize = SaucerSize(cnt, c.max, c.width),
                   !.currentPercent = Percent(cnt, c.max),
                   !.lastPercent = Percent(cnt, c.max)]

\* lines 305-331: the state after the update, cur being the count read at
\* line 305
AddState(c, s, cur, n, clock) ==
    LET cnt == AddCount(c, cur, n)
        s1  == AddRates([s EXCEPT !.currentNum = cnt,
                                  !.currentBytes = s.currentBytes + n], n, clock)
    IN  [s1 EXCEPT !.currentSaucerSize = SaucerSize(cnt, c.max, c.width),
                   !.currentPercent = Percent(cnt, c.max),
                   !.lastPercent = Percent(cnt, c.max)]

\* lines 332-341: what Add64 does after the update of s into s1
AddRender(c, s, s1, e) ==
    IF s1.currentNum > c.max
    THEN [s |-> s1, err |-> "OutOfRange", ev |-> <<>>, cb |-> 0, rc |-> 0]
    ELSE IF UpdateBar(s1.currentPercent, s.lastPercent) \/ c.showIterationsCount
         THEN render(c, s1, e)
         ELSE [s |-> s1, err |-> "nil", ev |-> <<>>, cb |-> 0, rc |-> 0]

\* p.Add64(n) under the lock
Add64(c, s, n, e) ==
    IF s.exit THEN [s |-> s, err |-> "nil", ev |-> <<>>, cb |-> 0, rc |-> 0]
    ELSE IF c.max = 0
         THEN [s |-> s, err |-> "InvalidConfiguration", ev |-> <<>>, cb |-> 0,
               rc |-> 0]
    ELSE Value(LAMBDA s1 : AddRender(c, s, s1, e),
               AddState(c, s, s.currentNum, n, e.now))

\* lines 346-348: RenderBlank marks a bar at count 0 as never shown
Unshown(s) == IF s.currentNum = 0 THEN [s EXCEPT !.lastShown = ZeroTime] ELSE s

\* p.RenderBlank()
RenderBlank(c, s, e) == render(c, Unshown(s), e)

\* ------------------------------------------------------------------------
\* Construction
\* ------------------------------------------------------------------------
\* line 206: defaultTheme has no head glyphs; every glyph is one column
DefaultTheme ==
    [Saucer |-> Glyph(1, 1), AltSaucerHead |-> NoGlyph, SaucerHead |-> NoGlyph,
     SaucerPadding |-> Glyph(1, 1), BarStart |-> Glyph(1, 1),
     BarEnd |-> Glyph(1, 1)]

\* the theme of the demonstration: " ", "[yellow]<[reset]",
\* "[yellow]-[reset]", "[white]" and a dot, "[blue]|[reset]" twice
DemoTheme ==
    [Saucer |-> Glyph(1, 1), AltSaucerHead |-> Glyph(16, 1),
     SaucerHead |-> Glyph(16, 1), SaucerPadding |-> Glyph(8, 1),
     BarStart |-> Glyph(14, 1), BarEnd |-> Glyph(14, 1)]

\* lines 247-254
getBasicState(clock) ==
    [currentNum |-> 0, currentPercent |-> 0, lastPercent |-> 0,
     currentSaucerSize |-> 0, isAltSaucerHead |-> FALSE,
     startTime |-> clock, lastShown |-> clock, counterTime |-> clock,
     counterNumSinceLast |-> 0, counterLastTenRates |-> <<>>,
     maxLineWidth |-> 0, currentBytes |-> 0, finished |-> FALSE,
     exit |-> FALSE, rendered |-> NoLine]

\* An option is the assignment it makes to a field of the configuration.
\* The description is given by its width, the writer by its name, the
\* completion callback by its presence.
OptionSetWidth(width) == [set |-> "width", to |-> width]
OptionSpinnerType(spinnerType) == [set |-> "spinnerType", to |-> spinnerType]
OptionSetTheme(t) == [set |-> "theme", to |-> t]
OptionSetDescription(description) == [set |-> "description", to |-> description]
OptionSetWriter(w) == [set |-> "writer", to |-> w]
OptionShowBytes(val) == [set |-> "showBytes", to |-> val]
OptionThrottle(duration) == [set |-> "throttleDuration", to |-> duration]
OptionShowCount == [set |-> "showIterationsCount", to |-> TRUE]
OptionOnCompletion == [set |-> "onCompletion", to |-> TRUE]
OptionFullWidth == [set |-> "fullWidth", to |-> TRUE]
OptionSetRenderBlankState(r) == [set |-> "renderWithBlankState", to |-> r]
OptionEnableColorCodes(colorCodes) == [set |-> "colorCodes", to |-> colorCodes]

\* The options of the configuration surface that set useANSICodes and
\* clearOnFinish.
OptionUseANSICodes(val) == [set |-> "useANSICodes", to |-> val]
OptionClearOnFinish == [set |-> "clearOnFinish", to |-> TRUE]

\* lines 209-221: the configuration before the options
BaseConfig(max) ==
    [writer |-> "os.Stdout", theme |-> DefaultTheme, width |-> DefaultWidth,
     max |-> max, throttleDuration |-> 0, elapsedTime |-> TRUE,
     predictTime |-> TRUE, spinnerType |-> DefaultSpinner,
     description |-> 0, showBytes |-> FALSE, showIterationsCount |-> FALSE,
     onCompletion |-> FALSE, fullWidth |-> FALSE, colorCodes |-> FALSE,
     renderWithBlankState |-> FALSE, ignoreLength |-> FALSE,
     useANSICodes |-> FALSE, clearOnFinish |-> FALSE, maxHumanized |-> 0]

\* lines 223-225: the options applied in their order
RECURSIVE Configured(_, _)
Configured(c, options) ==
    IF options = <<>> THEN c
    ELSE Configured([c EXCEPT ![Head(options).set] = Head(options).to],
                    Tail(options))

\* line 227
InvalidSpinner(c) == c.spinnerType < 0 \/ c.spinnerType > MaxSpinner

\* lines 231-236: a max of -1 selects the unknown-length mode
Length(c) ==
    IF c.max = UnknownLength
    THEN [c EXCEPT !.ignoreLength = TRUE, !.max = c.width,
                   !.predictTime = FALSE]
    ELSE c

\* line 238: the length of the humanized max, whose suffix is " B"
Humanized(c) == [c EXCEPT !.maxHumanized = HumanizedLen[FromInt[c.max]]]

\* a call that called neither render nor the sink
NoRender(s) == [s |-> s, err |-> "nil", ev |-> <<>>, cb |-> 0, rc |-> 0]

\* lines 240-244: the bar after construction, with the result of the
\* RenderBlank of line 241
Construct(c, s, e) ==
    [config |-> c, panic |-> FALSE,
     r |-> IF c.renderWithBlankState THEN RenderBlank(c, s, e) ELSE NoRender(s)]

\* lines 227-244, c being the configuration after the options: an invalid
\* spinner type panics and no bar is made
Checked(c, e) ==
    IF InvalidSpinner(c)
    THEN [config |-> c, panic |-> TRUE, r |-> NoRender(getBasicState(e.now))]
    ELSE Construct(Humanized(Length(c)), getBasicState(e.now), e)

\* lines 208-245
NewOptions64(max, options, e) == Checked(Configured(BaseConfig(max), options), e)

\* the spinner type Default asks for
DefaultSpinnerType == 14
\* the width and the throttle (65ms) Default asks for
DefaultBarWidth == 10
DefaultThrottle == 65

\* lines 258-279, the description being empty
Default(max, e) ==
    NewOptions64(max,
                 <<OptionSetDescription(0), OptionSetWriter("os.Stderr"),
                   OptionShowBytes(TRUE), OptionSetWidth(DefaultBarWidth),
                   OptionThrottle(DefaultThrottle), OptionShowCount,
                   OptionOnCompletion, OptionSpinnerType(DefaultSpinnerType),
                   OptionFullWidth, OptionSetRenderBlankState(TRUE)>>,
                 e)

\* the option o when it is given, for a list of options
Given(given, o) == IF given THEN <<o>> ELSE <<>>

\* ------------------------------------------------------------------------
\* The bar driven by one caller: every call runs from entry to return
\* ------------------------------------------------------------------------
\* a finished call: the operation, its argument, whether it called render
NoCall == [op |-> "none", n |-> 0, render |-> FALSE]

\* whether a trace holds a successful write of a line
DrewLine(trace) == \E i \in 1..Len(trace) : trace[i] = Out("line", TRUE)

\* the environment of a call made now
Here == Env(now, writerOK, term)

\* the bar b is the one constructed; a construction that panics leaves none
Constructed(b) ==
    /\ ~b.panic
    /\ config = b.config
    /\ state = b.r.s
    /\ completions = b.r.cb
    /\ ev = b.r.ev

\* the variables other than the bar, before the first call, on a terminal
\* of cols columns
InitEnv(cols) ==
    /\ term = cols
    /\ lock = NoThread
    /\ now = 0
    /\ writerOK = TRUE
    /\ ret = "none"
    /\ lastOp = NoCall
    /\ hist = [n |-> 0, sum |-> 0, unit |-> TRUE, nonneg |-> TRUE, blanks |-> 0]
    /\ sinkFailed = FALSE
    /\ lastLineAt = ZeroTime
    /\ pc = [t \in Threads |-> "idle"]
    /\ kind = [t \in Threads |-> "none"]
    /\ num = [t \in Threads |-> 0]
    /\ tmp = [t \in Threads |-> 0]
    /\ wid = [t \in Threads |-> 0]
    /\ res = [t \in Threads |-> "nil"]
    /\ loc = [t \in Threads |-> NoDrawing]

\* a bar made by NewOptions64 from a max and a list of options, at time 0
\* on a healthy sink
InitBar(maxes, lists, cols) ==
    /\ InitEnv(cols)
    /\ \E m \in maxes, o \in lists :
           \E b \in {NewOptions64(m, o, Env(0, TRUE, cols))} : Constructed(b)

\* the record of the Add calls issued, after one more call Add(n)
Issued(h, n) ==
    [h EXCEPT !.n = h.n + 1, !.sum = h.sum + n, !.unit = h.unit /\ n = 1,
              !.nonneg = h.nonneg /\ n >= 0]

threadVars == <<pc, kind, num, tmp, wid, res, loc>>

\* the call op(n) returns with the result r
Returned(r, op, n) ==
    /\ state' = r.s
    /\ ret' = r.err
    /\ ev' = r.ev
    /\ completions' = completions + r.cb
    /\ lastOp' = [op |-> op, n |-> n, render |-> r.rc = 1]

\* a caller runs p.Add64(n), as one of at most limit calls
AddCall(n, limit) ==
    /\ hist.n < limit
    /\ lock = NoThread
    /\ \E r \in {Add64(config, state, n, Here)} : Returned(r, "Add", n)
    /\ lastLineAt' = IF DrewLine(ev') THEN now ELSE lastLineAt
    /\ hist' = Issued(hist, n)
    /\ UNCHANGED <<config, lock, now, term, writerOK, sinkFailed, threadVars>>

\* lines 288-290
Add(n) == AddCall(n, MaxCalls)

\* a caller runs p.RenderBlank()
Blank ==
    /\ \E r \in {RenderBlank(config, state, Here)} :
           Returned(r, "RenderBlank", 0)
    /\ hist' = [hist EXCEPT !.blanks = IF @ < MaxBlanks THEN @ + 1 ELSE @]
    /\ UNCHANGED <<config, lock, now, term, writerOK, sinkFailed, lastLineAt,
                   threadVars>>

\* the explicit external stop: the bar is halted
Halt ==
    /\ ~state.exit
    /\ state' = [state EXCEPT !.exit = TRUE]
    /\ UNCHANGED <<config, lock, now, term, writerOK, completions, ret, lastOp,
                   ev, hist, sinkFailed, lastLineAt, threadVars>>

\* time passes
Tick ==
    /\ now < MaxTime * HalfSecond
    /\ now' = now + HalfSecond
    /\ UNCHANGED <<state, config, lock, term, writerOK, completions, ret,
                   lastOp, ev, hist, sinkFailed, lastLineAt, threadVars>>

\* the sink starts to fail its writes, and recovers
SinkFail ==
    /\ writerOK
    /\ writerOK' = FALSE
    /\ sinkFailed' = TRUE
    /\ UNCHANGED <<state, config, lock, now, term, completions, ret, lastOp, ev,
                   hist, lastLineAt, threadVars>>

SinkRecover ==
    /\ ~writerOK
    /\ writerOK' = TRUE
    /\ UNCHANGED <<state, config, lock, now, term, completions, ret, lastOp, ev,
                   hist, sinkFailed, lastLineAt, threadVars>>

\* Known positive lengths, with and without a throttle, the count and an
\* initial blank line, on a healthy sink
Init ==
    InitBar(1..MaxMax,
            {<<OptionSetWidth(BarWidth), OptionThrottle(d), OptionOnCompletion>>
             \o Given(count, OptionShowCount)
             \o Given(blank, OptionSetRenderBlankState(TRUE)) :
                 d \in Throttles, count \in BOOLEAN, blank \in BOOLEAN},
            Columns)

Next ==
    \/ \E n \in Deltas : Add(n)
    \/ Blank
    \/ Tick

Spec == Init /\ [][Next]_vars

\* ------------------------------------------------------------------------
\* The bar over its options: every max, with and without ANSI clearing,
\* clear on finish and completion callback, and with the external stop
\* ------------------------------------------------------------------------
InitOptions ==
    InitBar(MaxVals,
            {<<OptionSetWidth(BarWidth), OptionUseANSICodes(ansi)>>
             \o Given(count, OptionShowCount)
             \o Given(cmpl, OptionOnCompletion)
             \o Given(clear, OptionClearOnFinish) :
                 ansi \in BOOLEAN, count \in BOOLEAN, cmpl \in BOOLEAN,
                 clear \in BOOLEAN},
            Columns)

NextOptions ==
    \/ \E n \in Deltas : Add(n)
    \/ Blank
    \/ Halt

SpecOptions == InitOptions /\ [][NextOptions]_vars

\* ------------------------------------------------------------------------
\* The bar on a sink that may fail, with the default theme and with the
\* theme and the colour codes of the demonstration
\* ------------------------------------------------------------------------
DemoOptions == <<OptionEnableColorCodes(TRUE), OptionSetTheme(DemoTheme)>>

InitSink ==
    InitBar(1..MaxMax,
            {<<OptionSetWidth(BarWidth), OptionOnCompletion,
               OptionUseANSICodes(ansi)>>
             \o look
             \o Given(count, OptionShowCount)
             \o Given(clear, OptionClearOnFinish) :
                 look \in {<<>>, DemoOptions}, ansi \in BOOLEAN,
                 count \in BOOLEAN, clear \in BOOLEAN},
            Columns)

NextSink ==
    \/ \E n \in Deltas : Add(n)
    \/ Blank
    \/ SinkFail
    \/ SinkRecover

SpecSink == InitSink /\ [][NextSink]_vars

\* ------------------------------------------------------------------------
\* The bar over a long run of calls: after its first MaxCalls calls, made at
\* any time, the caller paces its calls by the rate window (more than 0.5s
\* since counterTime), so that every call pushes a rate and the history
\* fills and evicts
\* ------------------------------------------------------------------------
RateDeltas == {1, MaxDelta}

\* the rate window is due in an Add call made now
WindowDue == Since(state.counterTime, now) > HalfSecond

AddPaced(n) ==
    /\ hist.n < MaxCalls \/ WindowDue
    /\ AddCall(n, MaxRateCalls)

Wait ==
    /\ Since(state.counterTime, now) <= HalfSecond
    /\ now' = now + HalfSecond
    /\ UNCHANGED <<state, config, lock, term, writerOK, completions, ret,
                   lastOp, ev, hist, sinkFailed, lastLineAt, threadVars>>

InitRates ==
    InitBar({MaxMax},
            {<<OptionSetWidth(BarWidth)>> \o Given(count, OptionShowCount) :
                 count \in BOOLEAN},
            Columns)

NextRates ==
    \/ \E n \in RateDeltas : AddPaced(n)
    \/ Wait

SpecRates == InitRates /\ [][NextRates]_vars

\* ------------------------------------------------------------------------
\* The bar of Default, and the bars with the full width of the terminal or
\* with the byte display alone, with and without a terminal.  A spinner
\* type beyond the last one makes no bar.
\* ------------------------------------------------------------------------
DefaultMaxes == {UnknownLength} \cup 1..MaxMax

InitDefault ==
    /\ \E cols \in TermWidths :
        /\ InitEnv(cols)
        /\ \E m \in DefaultMaxes :
            \/ \E b \in {Default(m, Env(0, TRUE, cols))} : Constructed(b)
            \/ \E o \in {<<OptionSetWidth(BarWidth), OptionFullWidth>>,
                         <<OptionSetWidth(BarWidth), OptionShowBytes(TRUE)>>,
                         <<OptionSetWidth(BarWidth),
                           OptionSpinnerType(MaxSpinner + 1)>>} :
                   \E b \in {NewOptions64(m, o, Env(0, TRUE, cols))} :
                       Constructed(b)

NextDefault ==
    \/ \E n \in Deltas : Add(n)
    \/ Blank
    \/ Tick

SpecDefault == InitDefault /\ [][NextDefault]_vars

\* ------------------------------------------------------------------------
\* The bar driven by several threads: a call is a sequence of steps, one
\* for every statement that reads or writes the state of the bar, and the
\* steps of different threads interleave.  Add64 holds p.lock from entry to
\* return; RenderBlank takes no lock, so its steps fall between those of an
\* Add64 in progress.  The sink is healthy and the clock stands still.  The
\* call record (ret, lastOp, ev, lastLineAt) is not kept here.
\* ------------------------------------------------------------------------
callVars == <<ret, lastOp, ev, lastLineAt>>
envVars == <<config, now, term, writerOK, sinkFailed>>

\* thread t goes on to the statement at
Goto(t, at) ==
    /\ pc' = [pc EXCEPT ![t] = at]
    /\ UNCHANGED <<res, lock, kind, num, tmp, wid, loc>>

\* thread t returns from its call with error e: Add64 runs its deferred
\* Unlock (line 295), RenderBlank holds no lock
Return(t, e) ==
    /\ res' = [res EXCEPT ![t] = e]
    /\ pc' = [pc EXCEPT ![t] = "idle"]
    /\ lock' = IF kind[t] = "Add" THEN NoThread ELSE lock
    /\ kind' = [kind EXCEPT ![t] = "none"]
    /\ num' = [num EXCEPT ![t] = 0]
    /\ tmp' = [tmp EXCEPT ![t] = 0]
    /\ wid' = [wid EXCEPT ![t] = 0]
    /\ loc' = [loc EXCEPT ![t] = NoDrawing]

\* strings.Repeat panics in thread t with a negative count: the program
\* ends, and no thread takes a further step
Panic(t) ==
    /\ res' = [res EXCEPT ![t] = "panic"]
    /\ pc' = [u \in Threads |-> "panic"]
    /\ loc' = [loc EXCEPT ![t] = NoDrawing]
    /\ UNCHANGED <<lock, kind, num, tmp, wid>>

\* the statement of renderProgressBar thread t is at, run on the state
Stmt(t) == DrawStep(config, [s |-> state, d |-> loc[t]], Here)

\* a lock that never excludes
CanLock_NoMutex(t) == TRUE

\* p.lock.Lock() succeeds for thread t
CanLock(t) == lock = NoThread

\* lines 294-305: thread t calls p.Add64(n), takes the lock, returns early
\* or reads the count
AddEnter(t, n) ==
    /\ pc[t] = "idle"
    /\ hist.n < MaxCalls
    /\ CanLock(t)
    /\ hist' = Issued(hist, n)
    /\ IF state.exit
       THEN /\ res' = [res EXCEPT ![t] = "nil"]
            /\ UNCHANGED <<pc, lock, kind, num, tmp, loc>>
       ELSE IF config.max = 0
       THEN /\ res' = [res EXCEPT ![t] = "InvalidConfiguration"]
            /\ UNCHANGED <<pc, lock, kind, num, tmp, loc>>
       ELSE /\ kind' = [kind EXCEPT ![t] = "Add"]
            /\ num' = [num EXCEPT ![t] = n]
            /\ tmp' = [tmp EXCEPT ![t] = state.currentNum]
            /\ pc' = [pc EXCEPT ![t] = "count"]
            /\ lock' = t
            /\ UNCHANGED <<res, loc>>
    /\ UNCHANGED <<state, completions, wid, callVars, envVars>>

\* lines 305-311: the count is written
StoreCount(t) ==
    /\ pc[t] = "count"
    /\ state' = [state EXCEPT !.currentNum = AddCount(config, tmp[t], num[t])]
    /\ Goto(t, "bytes")
    /\ UNCHANGED <<completions, hist, callVars, envVars>>

\* line 313
AddBytes(t) ==
    /\ pc[t] = "bytes"
    /\ state' = [state EXCEPT !.currentBytes = state.currentBytes + num[t]]
    /\ Goto(t, "rates")
    /\ UNCHANGED <<completions, hist, callVars, envVars>>

\* lines 316-318 at "rates", no other call reading counterNumSinceLast
\* and counterTime, and lines 319-323 at "trim"
StoreRates(t) ==
    /\ pc[t] \in {"rates", "trim"}
    /\ IF pc[t] = "trim"
       THEN /\ state' = TrimRates(state, now)
            /\ Goto(t, "saucer")
       ELSE IF RateDue(Counted(state, num[t]), now)
       THEN /\ state' = PushRate(Counted(state, num[t]), now)
            /\ Goto(t, "trim")
       ELSE /\ state' = Counted(state, num[t])
            /\ Goto(t, "saucer")
    /\ UNCHANGED <<completions, hist, callVars, envVars>>

\* lines 326-327
StoreSaucerSize(t) ==
    /\ pc[t] = "saucer"
    /\ state' = [state EXCEPT !.currentSaucerSize =
                     SaucerSize(state.currentNum, config.max, config.width)]
    /\ Goto(t, "percent")
    /\ UNCHANGED <<completions, hist, callVars, envVars>>

\* line 328
StorePercent(t) ==
    /\ pc[t] = "percent"
    /\ state' = [state EXCEPT !.currentPercent =
                     Percent(state.currentNum, config.max)]
    /\ Goto(t, "decide")
    /\ UNCHANGED <<completions, hist, callVars, envVars>>

\* lines 329-341: updateBar, lastPercent and the decision to render; no
\* other call reads lastPercent
Decide(t) ==
    /\ pc[t] = "decide"
    /\ state' = [state EXCEPT !.lastPercent = state.currentPercent]
    /\ IF state.currentNum > config.max
       THEN Return(t, "OutOfRange")
       ELSE IF \/ UpdateBar(state.currentPercent, state.lastPercent)
               \/ config.showIterationsCount
       THEN Goto(t, "render")
       ELSE Return(t, "nil")
    /\ UNCHANGED <<completions, hist, callVars, envVars>>

\* line 346: thread t calls p.RenderBlank(), which tests the count
CallBlank(t) ==
    /\ pc[t] = "idle"
    /\ hist.blanks < MaxBlanks
    /\ kind' = [kind EXCEPT ![t] = "RenderBlank"]
    /\ pc' = [pc EXCEPT ![t] = IF state.currentNum = 0 THEN "unshown"
                                ELSE "render"]
    /\ hist' = [hist EXCEPT !.blanks = @ + 1]
    /\ UNCHANGED <<state, lock, completions, num, tmp, wid, res, loc,
                   callVars, envVars>>

\* line 347
StoreUnshown(t) ==
    /\ pc[t] = "unshown"
    /\ state' = [state EXCEPT !.lastShown = ZeroTime]
    /\ Goto(t, "render")
    /\ UNCHANGED <<completions, hist, callVars, envVars>>

\* render, line 358 at "render" and line 359 at "throttle"
RenderThrottle(t) ==
    /\ pc[t] \in {"render", "throttle"}
    /\ IF pc[t] = "throttle"
       THEN IF BelowMax(config, state)
            THEN Return(t, "nil") ELSE Goto(t, "clear")
       ELSE Goto(t, IF TooSoon(config, state, now) THEN "throttle"
                    ELSE "clear")
    /\ UNCHANGED <<state, completions, hist, callVars, envVars>>

\* render, lines 363-369
RenderClear(t) ==
    /\ pc[t] = "clear"
    /\ IF renderClear(config, state, Here).stop
       THEN Return(t, renderClear(config, state, Here).err)
       ELSE Goto(t, "test")
    /\ UNCHANGED <<state, completions, hist, callVars, envVars>>

\* render, line 372, the finished flag
FinishTest(t) ==
    /\ pc[t] = "test"
    /\ Goto(t, IF ~state.finished THEN "due" ELSE "finished")
    /\ UNCHANGED <<state, completions, hist, callVars, envVars>>

\* render, line 372, the count
DueTest(t) ==
    /\ pc[t] = "due"
    /\ Goto(t, IF AtMax(config, state) THEN "mark" ELSE "finished")
    /\ UNCHANGED <<state, completions, hist, callVars, envVars>>

\* render, line 373
MarkFinished(t) ==
    /\ pc[t] = "mark"
    /\ state' = [state EXCEPT !.finished = TRUE]
    /\ Goto(t, "final")
    /\ UNCHANGED <<completions, hist, callVars, envVars>>

\* render, lines 374-376: the test of clearOnFinish, and a statement of
\* the drawing of the final line, whose results are dropped
FinalDraw(t) ==
    /\ pc[t] = "final"
    /\ IF config.clearOnFinish
       THEN /\ state' = state
            /\ Goto(t, "callback")
       ELSE \E g \in {Stmt(t)} :
            /\ state' = g.s
            /\ IF g.d.at = "panic" THEN Panic(t)
               ELSE IF g.d.at = "done"
               THEN /\ pc' = [pc EXCEPT ![t] = "callback"]
                    /\ loc' = [loc EXCEPT ![t] = NoDrawing]
                    /\ UNCHANGED <<res, lock, kind, num, tmp, wid>>
               ELSE /\ loc' = [loc EXCEPT ![t] = g.d]
                    /\ UNCHANGED <<pc, res, lock, kind, num, tmp, wid>>
    /\ UNCHANGED <<completions, hist, callVars, envVars>>

\* render, lines 377-379
CallCompletion(t) ==
    /\ pc[t] = "callback"
    /\ completions' = IF config.onCompletion THEN completions + 1
                      ELSE completions
    /\ Goto(t, "finished")
    /\ UNCHANGED <<state, hist, callVars, envVars>>

\* render, line 381 at "finished" and lines 383-389 at "erase"
FinishedTest(t) ==
    /\ pc[t] \in {"finished", "erase"}
    /\ IF pc[t] = "erase"
       THEN Return(t, clearProgressBar(config, state, writerOK).err)
       ELSE IF ~state.finished THEN Goto(t, "draw")
       ELSE IF config.useANSICodes /\ config.clearOnFinish
            THEN Goto(t, "erase")
       ELSE Return(t, "nil")
    /\ UNCHANGED <<state, completions, hist, callVars, envVars>>

\* render, lines 393-396: a statement of the drawing of the line, and the
\* return of its error
DrawLine(t) ==
    /\ pc[t] = "draw"
    /\ \E g \in {Stmt(t)} :
       /\ state' = g.s
       /\ IF g.d.at = "panic" THEN Panic(t)
          ELSE IF g.d.at = "done" /\ g.d.err # "nil"
          THEN Return(t, g.d.err)
          ELSE IF g.d.at = "done"
          THEN /\ wid' = [wid EXCEPT ![t] = g.d.w]
               /\ pc' = [pc EXCEPT ![t] = "width"]
               /\ loc' = [loc EXCEPT ![t] = NoDrawing]
               /\ UNCHANGED <<res, lock, kind, num, tmp>>
          ELSE /\ loc' = [loc EXCEPT ![t] = g.d]
               /\ UNCHANGED <<pc, res, lock, kind, num, tmp, wid>>
    /\ UNCHANGED <<completions, hist, callVars, envVars>>

\* render, line 398
WidthTest(t) ==
    /\ pc[t] = "width"
    /\ Goto(t, IF wid[t] > state.maxLineWidth THEN "widen" ELSE "shown")
    /\ UNCHANGED <<state, completions, hist, callVars, envVars>>

\* render, line 399
StoreWidth(t) ==
    /\ pc[t] = "widen"
    /\ state' = [state EXCEPT !.maxLineWidth = wid[t]]
    /\ Goto(t, "shown")
    /\ UNCHANGED <<completions, hist, callVars, envVars>>

\* render, lines 401-403
StoreShown(t) ==
    /\ pc[t] = "shown"
    /\ state' = [state EXCEPT !.lastShown = now]
    /\ Return(t, "nil")
    /\ UNCHANGED <<completions, hist, callVars, envVars>>

\* a step of a call of Add64 by thread t
AddStmt(t) ==
    \/ \E n \in Deltas : AddEnter(t, n)
    \/ StoreCount(t)
    \/ AddBytes(t)
    \/ StoreRates(t)
    \/ StoreSaucerSize(t)
    \/ StorePercent(t)
    \/ Decide(t)

\* a step of render, called by Add64 or by RenderBlank
RenderStmt(t) ==
    \/ RenderThrottle(t)
    \/ RenderClear(t)
    \/ FinishTest(t)
    \/ DueTest(t)
    \/ MarkFinished(t)
    \/ FinalDraw(t)
    \/ CallCompletion(t)
    \/ FinishedTest(t)
    \/ DrawLine(t)
    \/ WidthTest(t)
    \/ StoreWidth(t)
    \/ StoreShown(t)

InitConc ==
    InitBar(1..MaxMax,
            {<<OptionSetWidth(BarWidth), OptionOnCompletion>>
             \o Given(count, OptionShowCount) : count \in BOOLEAN},
            Columns)

\* the threads call Add64 and RenderBlank
NextConc ==
    \E t \in Threads :
        \/ AddStmt(t)
        \/ CallBlank(t)
        \/ StoreUnshown(t)
        \/ RenderStmt(t)

SpecConc == InitConc /\ [][NextConc]_vars

\* the threads call Add64 only
NextAdds == \E t \in Threads : AddStmt(t) \/ RenderStmt(t)

SpecAdds == InitConc /\ [][NextAdds]_vars

\* ------------------------------------------------------------------------
\* Properties
\* ------------------------------------------------------------------------
\* the step is a call of Add64
AddStep == hist'.n = hist.n + 1

\* the position of the callback in a trace, 0 when it was not called
CallbackAt(trace) ==
    IF \E i \in 1..Len(trace) : trace[i] = Callback
    THEN CHOOSE i \in 1..Len(trace) : trace[i] = Callback
    ELSE 0

\* C1: on a known-length bar with max > 0 and a healthy sink, once max calls
\* of Add(1) and no other Add call have been made, the bar is finished and
\* the completion callback has been called exactly once.
C1_FinishedAfterMaxUnitAdds ==
    (hist.unit /\ hist.n >= config.max)
        => (state.finished /\ completions = 1)

C1_Witness ==
    /\ hist.unit /\ hist.n = config.max /\ config.max > 1
    /\ config.throttleDuration > 0 /\ now = 0
    /\ state.finished /\ completions = 1

\* C2 as stated: once Add(1) calls have brought a known-length bar to
\* count = max, every further Add on the bar that is not halted returns the
\* OutOfRange error.
C2_FurtherAddOutOfRange ==
    [][(/\ AddStep /\ ~state.exit /\ ~config.ignoreLength /\ config.max > 0
        /\ hist.unit /\ hist.n = config.max /\ state.currentNum = config.max)
       => ret' = "OutOfRange"]_vars

\* C2 amended: once Add(1) calls have brought a known-length bar to
\* count = max, every further Add on the bar that is not halted leaves the
\* count at max and returns no error (the sink being healthy); an Add on a
\* halted bar returns no error and changes nothing.
C2_FurtherAddSaturates ==
    [][/\ (/\ AddStep /\ ~state.exit /\ ~config.ignoreLength /\ config.max > 0
           /\ hist.unit /\ hist.n = config.max /\ state.currentNum = config.max)
          => (ret' = "nil" /\ state'.currentNum = config.max)
       /\ (AddStep /\ state.exit)
          => (ret' = "nil" /\ state' = state /\ ev' = <<>>)]_vars

C2_Witness ==
    /\ hist.unit /\ hist.n = config.max + 1 /\ config.max > 0
    /\ ~config.ignoreLength /\ ~state.exit
    /\ lastOp.op = "Add" /\ ret = "nil" /\ state.currentNum = config.max

\* C3 as stated: on a known-length bar the finished flag is set in the Add
\* call in which the count first becomes >= max, whether it lands on max or
\* goes beyond it, and it is never reset.
C3_FinishedOnReachOrOvershoot ==
    [][/\ (/\ AddStep /\ ~config.ignoreLength /\ config.max > 0
           /\ state.currentNum < config.max
           /\ state'.currentNum >= config.max)
          => state'.finished
       /\ state.finished => state'.finished]_vars

\* C3 amended: on a known-length bar with a healthy sink the finished flag
\* is set in the Add call in which the count becomes exactly max; an Add
\* call that takes the count beyond max returns OutOfRange and leaves the
\* flag as it was; once set the flag is never reset.
C3_FinishedOnExactMax ==
    [][/\ (/\ AddStep /\ ~config.ignoreLength /\ config.max > 0
           /\ state.currentNum < config.max
           /\ state'.currentNum = config.max)
          => (state'.finished /\ ret' = "nil")
       /\ (/\ AddStep /\ ~config.ignoreLength /\ config.max > 0
           /\ state.currentNum < config.max
           /\ state'.currentNum > config.max)
          => (state'.finished = state.finished /\ ret' = "OutOfRange")
       /\ state.finished => state'.finished]_vars

C3_Witness ==
    /\ ~config.ignoreLength /\ config.max > 1 /\ hist.blanks = 0
    /\ hist.n = 1 /\ lastOp.op = "Add" /\ lastOp.n = config.max
    /\ state.currentNum = config.max /\ state.finished

\* C4: whenever the maximum is zero or negative, an Add on the bar that is
\* not halted returns InvalidConfiguration and changes no field of the
\* state.
C4_NonPositiveMaxRejected ==
    [][(AddStep /\ ~state.exit /\ config.max <= 0)
       => (ret' = "InvalidConfiguration" /\ state' = state)]_vars

\* C5: a thread is inside render only while it holds the lock; so no two
\* threads are inside render together, and none is inside render while
\* another updates the state in Add64.
RenderPcs == {"render", "throttle", "clear", "test", "due", "mark", "final",
              "callback", "finished", "erase", "draw", "width", "widen",
              "shown"}
UpdatePcs == {"count", "bytes", "rates", "trim", "saucer", "percent",
              "decide"}

C5_RenderUnderLock ==
    /\ \A t \in Threads : pc[t] \in RenderPcs => lock = t
    /\ Cardinality({t \in Threads : pc[t] \in RenderPcs}) <= 1
    /\ \A t, u \in Threads : ~(pc[t] \in RenderPcs /\ pc[u] \in UpdatePcs)

\* C6: when threads have issued only Add calls with deltas >= 0 that sum to
\* at most max on a known-length bar with a healthy sink, and all calls
\* have returned, the count is the sum of the deltas, and the bar has
\* finished and called the callback, once, exactly if the sum is max.
C6_NoLostUpdate ==
    (/\ \A t \in Threads : pc[t] = "idle"
     /\ hist.blanks = 0 /\ hist.nonneg /\ hist.sum <= config.max)
        => /\ state.currentNum = hist.sum
           /\ state.finished = (hist.sum = config.max)
           /\ completions = (IF hist.sum = config.max THEN 1 ELSE 0)

C6_Witness ==
    /\ \A t \in Threads : pc[t] = "idle" /\ res[t] = "nil"
    /\ hist.blanks = 0 /\ hist.nonneg /\ hist.n >= 2 /\ ~hist.unit
    /\ config.max > 1 /\ hist.sum = config.max
    /\ state.currentNum = config.max /\ completions = 1

\* C7 as stated: in the Add call that completes the bar nothing is written
\* to the sink before the completion callback is called.
C7_CallbackBeforeWrites ==
    (lastOp.op = "Add" /\ CallbackAt(ev) > 0) => CallbackAt(ev) = 1

\* C7 amended: in the Add call that completes the bar the callback is called
\* after the bar is marked finished, after the clearing of the previous line
\* (without ANSI codes) and, when clear-on-finish is unset, right after the
\* write of the final line; only the ANSI erase of clear-on-finish follows
\* the callback.
C7_CallbackAfterFinalLine ==
    (lastOp.op = "Add" /\ CallbackAt(ev) > 0) =>
        LET i == CallbackAt(ev)
        IN  /\ state.finished
            /\ ~config.clearOnFinish => (i > 1 /\ ev[i - 1].what = "line")
            /\ config.clearOnFinish => \A j \in 1..(i - 1) : ev[j].what = "clear"
            /\ \A j \in 1..(i - 1) : ev[j].what \in {"clear", "line"}
            /\ \A j \in (i + 1)..Len(ev) :
                 /\ ev[j].what = "erase"
                 /\ config.useANSICodes /\ config.clearOnFinish

C7_Witness ==
    /\ lastOp.op = "Add" /\ Len(ev) = 3
    /\ ev[1].what = "clear" /\ ev[2].what = "line" /\ ev[3] = Callback
    /\ ~config.clearOnFinish /\ ~config.useANSICodes

\* C8: whenever a write to the sink fails during an Add call, the write of
\* the final line in the completing call included, Add returns the error of
\* the sink.
C8_WriteErrorReturned ==
    (lastOp.op = "Add" /\ \E i \in 1..Len(ev) : ~ev[i].ok)
        => ret = "WriteFailure"

\* C9 as stated: with the iteration count not shown, an Add call (that does
\* not return OutOfRange) calls render exactly when the percentage it
\* computes is > 0 and differs from the percentage of the last line drawn.
C9_RedrawOnChangeSinceRedraw ==
    [][(AddStep /\ ~config.showIterationsCount /\ ret' # "OutOfRange")
       => (lastOp'.render <=>
             (/\ state'.currentPercent > 0
              /\ state'.currentPercent # state.rendered.percent))]_vars

\* C9 amended: with the iteration count not shown, an Add call that does not
\* return OutOfRange calls render exactly when the percentage it computes
\* is > 0 and differs from the percentage computed by the Add call before
\* it (0 before the first), whether or not that call drew a line; a change
\* whose redraw the throttle skipped is not redrawn by the following calls.
C9_RedrawOnChangeSinceAdd ==
    [][(AddStep /\ ~config.showIterationsCount /\ ret' # "OutOfRange")
       => (lastOp'.render <=>
             (/\ state'.currentPercent > 0
              /\ state'.currentPercent # state.currentPercent))]_vars

C9_Witness ==
    /\ lastOp.op = "Add" /\ ~lastOp.render /\ ret = "nil"
    /\ ~config.showIterationsCount /\ config.throttleDuration > 0
    /\ ~state.finished /\ state.currentPercent > 0
    /\ state.rendered = NoLine

\* C10: with a positive throttle interval and a healthy sink, an Add call
\* made less than the interval after an Add call drew a line draws a line
\* only if it brings the count to >= max; and the call that brings the
\* count to max always draws its line.
C10_Throttle ==
    [][/\ (/\ AddStep /\ config.throttleDuration > 0 /\ DrewLine(ev')
           /\ lastLineAt # ZeroTime
           /\ now - lastLineAt < config.throttleDuration)
          => (state.currentNum < config.max /\ state'.currentNum >= config.max)
       /\ (/\ AddStep /\ config.throttleDuration > 0
           /\ state.currentNum < config.max /\ state'.currentNum = config.max)
          => DrewLine(ev')]_vars

C10_Witness ==
    /\ config.throttleDuration > 0 /\ lastOp.op = "Add" /\ DrewLine(ev)
    /\ state.finished /\ hist.blanks = 0 /\ hist.n >= 2
    /\ now > 0 /\ state.lastShown = now /\ lastLineAt = now

\* C11 as stated: once a sequence of integer deltas whose sum is max has
\* been applied to a known-length bar, the percentage is 100 and the line
\* last drawn shows 100% without the [elapsed:remaining] segment.
C11_HundredAtSumMax ==
    (hist.n > 0 /\ hist.sum = config.max)
        => /\ state.currentPercent = 100
           /\ state.rendered.percent = 100
           /\ state.rendered.times = "none"

\* C11 amended: once a sequence of integer deltas whose sum is max has been
\* applied to a known-length bar and none of the calls has taken the count
\* beyond max, the count is max, the bar is finished, the percentage is 100
\* and the line last drawn shows 100% without the [elapsed:remaining]
\* segment.
C11_HundredAtSumMaxInRange ==
    (hist.n > 0 /\ hist.sum = config.max /\ state.currentNum <= config.max)
        => /\ state.currentNum = config.max
           /\ state.finished
           /\ state.currentPercent = 100
           /\ state.rendered.kind = "bar"
           /\ state.rendered.percent = 100
           /\ state.rendered.times = "none"

C11_Witness ==
    /\ hist.n = 3 /\ hist.sum = config.max /\ ~hist.nonneg /\ hist.blanks = 0
    /\ config.max > 1 /\ config.predictTime
    /\ state.currentNum = config.max /\ state.currentPercent = 100
    /\ state.rendered.percent = 100 /\ state.rendered.times = "none"

\* C12: an Add call on a known-length bar that is not halted and that leaves
\* the count beyond max returns OutOfRange and keeps the count it reached:
\* the count before plus the delta when the count was below max, the count
\* before when it was beyond max already.
C12_OvershootKept ==
    [][(AddStep /\ ~state.exit /\ ~config.ignoreLength /\ config.max # 0)
       => /\ (state.currentNum < config.max
              /\ state.currentNum + lastOp'.n > config.max)
             => /\ ret' = "OutOfRange"
                /\ state'.currentNum = state.currentNum + lastOp'.n
          /\ state.currentNum > config.max
             => /\ ret' = "OutOfRange"
                /\ state'.currentNum = state.currentNum
          /\ state'.currentNum > config.max => ret' = "OutOfRange"]_vars

C12_Witness ==
    /\ lastOp.op = "Add" /\ ret = "OutOfRange" /\ ~state.exit
    /\ ~config.ignoreLength /\ config.max > 1 /\ hist.n = 2 /\ hist.unit = FALSE
    /\ state.currentNum = hist.sum /\ state.currentNum > config.max
    /\ lastOp.n = MaxDelta

\* C13: on a bar of unknown length (constructed with max = -1, so that max is
\* the width) that is not halted, after k calls of Add(1) and no other Add
\* call the count is k mod max; it is within 0..max-1 at every step, and it
\* is 1 after max+1 calls.
C13_UnknownLengthWraps ==
    (config.ignoreLength /\ ~state.exit /\ hist.unit)
        => /\ config.max = config.width
           /\ state.currentNum = hist.n % config.max
           /\ state.currentNum \in 0..(config.max - 1)
           /\ hist.n = config.max + 1 => state.currentNum = 1

C13_Witness ==
    /\ config.ignoreLength /\ ~state.exit /\ hist.unit
    /\ hist.n = config.max + 1 /\ state.currentNum = 1
    /\ lastOp.op = "Add" /\ ret = "nil"

\* C14 as stated: Add(0) on a bar with max > 0 that is not halted leaves the
\* count, the percentage and the finished flag unchanged and calls render
\* only if the iteration count is shown, in every reachable state.
C14_AddZeroIdempotent ==
    [][(AddStep /\ lastOp'.n = 0 /\ ~state.exit /\ config.max > 0)
       => /\ state'.currentNum = state.currentNum
          /\ state'.currentPercent = state.currentPercent
          /\ state'.finished = state.finished
          /\ lastOp'.render => config.showIterationsCount]_vars

\* C14 amended: Add(0) on a bar with max > 0 that is not halted leaves the
\* count and the percentage unchanged and calls render only if the
\* iteration count is shown (and then unless the count is beyond max, when
\* it returns OutOfRange); it leaves the finished flag unchanged except
\* when the iteration count is shown and the count is max with the bar not
\* finished (the completing render failed on the sink before the finish
\* transition): that call finishes the bar, unless its own clearing write
\* fails.
C14_AddZeroFinishesLate ==
    [][(AddStep /\ lastOp'.n = 0 /\ ~state.exit /\ config.max > 0)
       => /\ state'.currentNum = state.currentNum
          /\ state'.currentPercent = state.currentPercent
          /\ lastOp'.render
             <=> (config.showIterationsCount /\ state.currentNum <= config.max)
          /\ state'.finished # state.finished
             => /\ config.showIterationsCount /\ state'.finished
                /\ state.currentNum = config.max
          /\ (/\ config.showIterationsCount /\ ~state.finished
              /\ state.currentNum = config.max /\ ret' = "nil")
             => state'.finished]_vars

C14_Witness ==
    /\ lastOp.op = "Add" /\ lastOp.n = 0 /\ lastOp.render
    /\ config.showIterationsCount /\ sinkFailed
    /\ state.finished /\ CallbackAt(ev) > 0
    /\ state.currentNum = config.max

\* String(): the line last rendered, NoLine standing for the empty string
String == state.rendered

\* C15: while the bar is running, that is, after construction and before it
\* is finished, String() is not the empty string.
C15_StringNonEmptyWhileRunning ==
    ~state.finished => String # NoLine

\* the rate pushed by the Add call of this step
NewRate ==
    RateOf[state.counterNumSinceLast + lastOp'.n,
           Since(state.counterTime, now)]

\* C16: the rate history never holds more than 10 entries; an Add call that
\* pushes a rate onto a history of 10 removes the oldest entry and keeps the
\* others in their order, the new rate being the last; an Add call that
\* pushes onto a shorter history appends, and one that does not push leaves
\* the history as it is.
C16_RateHistoryFIFO ==
    /\ [](Len(state.counterLastTenRates) <= RateHistory)
    /\ [][AddStep =>
            LET h  == state.counterLastTenRates
                h2 == state'.counterLastTenRates
            IN  /\ (WindowDue /\ Len(h) = RateHistory)
                   => /\ Len(h2) = RateHistory
                      /\ \A i \in 1..(RateHistory - 1) : h2[i] = h[i + 1]
                      /\ h2[RateHistory] = NewRate
                /\ (WindowDue /\ Len(h) < RateHistory) => h2 = Append(h, NewRate)
                /\ ~WindowDue => h2 = h]_vars

C16_Witness ==
    /\ lastOp.op = "Add" /\ state.counterTime = now
    /\ now = 2 * HalfSecond * (RateHistory + 1)
    /\ Len(state.counterLastTenRates) = RateHistory
    /\ state.counterLastTenRates[1] # state.counterLastTenRates[RateHistory]

\* C17: on a bar with max # 0 that is not halted, the byte total is the sum
\* of the deltas of all Add calls, those that wrapped the count, left it
\* saturated at max or returned OutOfRange included.
C17_BytesAreSumOfDeltas ==
    (~state.exit /\ config.max # 0) => state.currentBytes = hist.sum

C17_Witness ==
    /\ ~state.exit /\ ~config.ignoreLength /\ config.max > 0
    /\ hist.n = 3 /\ ret = "OutOfRange" /\ lastOp.op = "Add" /\ lastOp.n < 0
    /\ state.currentBytes = hist.sum /\ state.currentBytes # state.currentNum

\* C18: a line of a known-length bar whose fill is > 0 and as long as the
\* track is wide has the plain fill glyph in its head cell, whatever the
\* alternating-head toggle and the head glyphs of the theme.
C18_FullFillPlainHead ==
    (/\ String.kind = "bar" /\ String.head # "none"
     /\ String.saucer + 1 = String.track)
        => String.head = "Saucer"

\* C19: once the bar is finished, clearOnFinish being unset, an Add call
\* writes nothing to the sink, neither a line nor a clearing sequence, also
\* when the iteration count is shown.
C19_NoWriteAfterFinish ==
    [][(AddStep /\ state.finished /\ ~config.clearOnFinish) => ev' = <<>>]_vars

\* C20: on a known-length bar (not halted: nothing in the code sets the exit
\* flag), once the count is >= max no Add call changes it, whatever the sign
\* of the delta; a count beyond max therefore stays, and every Add call on
\* it returns OutOfRange, while an Add call on a count of max does not.
C20_CountFrozenAtMax ==
    [][(/\ AddStep /\ ~state.exit /\ ~config.ignoreLength
        /\ state.currentNum >= config.max)
       => /\ state'.currentNum = state.currentNum
          /\ state.currentNum > config.max => ret' = "OutOfRange"
          /\ state.currentNum = config.max => ret' # "OutOfRange"]_vars

C20_Witness ==
    /\ lastOp.op = "Add" /\ lastOp.n < 0 /\ ret = "OutOfRange"
    /\ ~config.ignoreLength /\ hist.n = 3 /\ hist.blanks = 0
    /\ state.currentNum > config.max /\ state.currentNum > hist.sum

\* C21: on a bar of unknown length, while no Add call had a negative delta,
\* the bar is not finished and the completion callback has not been called,
\* however many Add (and RenderBlank) calls were made: the wrapped count
\* stays below max.
C21_UnknownLengthNeverFinishes ==
    (config.ignoreLength /\ hist.nonneg)
        => /\ ~state.finished
           /\ completions = 0
           /\ state.currentNum < config.max

C21_Witness ==
    /\ config.ignoreLength /\ hist.nonneg /\ config.onCompletion
    /\ ~state.exit /\ hist.n = MaxCalls /\ hist.sum > config.max
    /\ lastOp.op = "Add" /\ lastOp.render /\ String.kind = "spinner"
    /\ ~state.finished /\ completions = 0

====
